---- MODULE Spec2Model ----
(***************************************************************************)
(* Crawl-and-index pipeline of ChangiChat: webscrape.py (URL classifier,   *)
(* content extractor, frontier crawler) and ingest.py (index build entry   *)
(* point).  Strings are sequences of one-character strings, so that        *)
(* endswith, substring tests, strip and split are computed character by    *)
(* character as the Python code computes them.                             *)
(***************************************************************************)
EXTENDS Integers, Sequences, FiniteSets, TLC

VARIABLES
    \* should_skip_url applied to one URL
    sk_pc,        \* "call" before the call, "done" after it
    sk_in,        \* the parts the URL was assembled from
    sk_url,       \* the URL, a string
    sk_result,    \* the value returned
    \* extract_text applied to one parsed document
    ex_pc,        \* "call" before the call, "done" after it
    ex_soup,      \* the parsed document
    ex_out,       \* the string returned
    \* ingest.py run as a script
    ig_pc,          \* the statement about to run; "raised" and "done" are final
    data_file,      \* the record store: whether the file exists, and its lines
    out_dir,        \* the output index directory on disk
    out_dir_before, \* the directory as it was when the run started
    documents,      \* the list load_jsonl returned
    ig_error,       \* the exception that ended the run, "" when none
    \* webscrape.py run as a script: main and the scrape_site it calls
    site,                 \* the web being crawled (a name, see Responses)
    c_pc,                 \* the statement about to run; "done" and "raised" are final
    domain_idx,           \* main: index into DOMAINS of the for loop
    total_scraped,        \* main: total_scraped
    fout,                 \* main: the records written to OUTPUT_FILE
    output_file,          \* the text of OUTPUT_FILE on disk
    base_url,             \* scrape_site: base_url
    visited,              \* scrape_site: visited
    to_visit,             \* scrape_site: to_visit
    domain_data,          \* scrape_site: domain_data
    pages_scraped,        \* scrape_site: pages_scraped
    total_scraped_count,  \* scrape_site: total_scraped_count
    url,                  \* scrape_site: url, the entry popped last
    resp,                 \* scrape_site: resp
    soup,                 \* scrape_site: soup
    parsers_tried,        \* the parsers tried on resp, in order
    fetch_count,          \* requests.get calls of this scrape_site call, by URL
    fetch_attempts,       \* requests.get calls of this scrape_site call
    outcomes,             \* how the fetch attempts of this scrape_site call ended
    fetched_since_sleep,  \* a requests.get was issued and no time.sleep since
    emitted               \* records appended to domain_data, by origin

skipVars == <<sk_pc, sk_in, sk_url, sk_result>>

extractVars == <<ex_pc, ex_soup, ex_out>>

ingestVars == <<ig_pc, data_file, out_dir, out_dir_before, documents, ig_error>>

mainVars == <<site, domain_idx, total_scraped, fout, output_file>>

scrapeVars == <<base_url, visited, to_visit, domain_data, pages_scraped,
                total_scraped_count, url, resp, soup, parsers_tried,
                fetch_count, fetch_attempts, outcomes, fetched_since_sleep,
                emitted>>

crawlVars == <<c_pc, mainVars, scrapeVars>>

vars == <<skipVars, extractVars, ingestVars, crawlVars>>

(***************************************************************************)
(* Python str helpers                                                      *)
(***************************************************************************)
Min(S) == CHOOSE x \in S : \A y \in S : x <= y

Max(S) == CHOOSE x \in S : \A y \in S : x >= y

\* s[from:] with a 1-based index
Tail_from(s, from) == SubSeq(s, from, Len(s))

\* str.find over a set of characters: 1-based index of the first hit, 0 when none
FindFirst(s, C) ==
    LET I == {i \in 1..Len(s) : s[i] \in C}
    IN IF I = {} THEN 0 ELSE Min(I)

\* str.rfind of one character: 1-based index of the last hit, 0 when none
FindLast(s, c) ==
    LET I == {i \in 1..Len(s) : s[i] = c}
    IN IF I = {} THEN 0 ELSE Max(I)

UpperCase == <<"A","B","C","D","E","F","G","H","I","J","K","L","M",
               "N","O","P","Q","R","S","T","U","V","W","X","Y","Z">>

LowerCase == <<"a","b","c","d","e","f","g","h","i","j","k","l","m",
               "n","o","p","q","r","s","t","u","v","w","x","y","z">>

Digits == <<"0","1","2","3","4","5","6","7","8","9">>

Range(f) == {f[i] : i \in DOMAIN f}

LowerChar(c) ==
    IF \E i \in 1..Len(UpperCase) : UpperCase[i] = c
    THEN LowerCase[CHOOSE i \in 1..Len(UpperCase) : UpperCase[i] = c]
    ELSE c

\* str.lower()
lower(s) == [i \in 1..Len(s) |-> LowerChar(s[i])]

\* str.upper()
upper(s) ==
    [i \in 1..Len(s) |->
        IF \E k \in 1..Len(LowerCase) : LowerCase[k] = s[i]
        THEN UpperCase[CHOOSE k \in 1..Len(LowerCase) : LowerCase[k] = s[i]]
        ELSE s[i]]

\* str.startswith(prefix)
startswith(s, prefix) ==
    /\ Len(prefix) <= Len(s)
    /\ SubSeq(s, 1, Len(prefix)) = prefix

\* str.endswith(suffix)
endswith(s, suffix) ==
    /\ Len(suffix) <= Len(s)
    /\ SubSeq(s, Len(s) - Len(suffix) + 1, Len(s)) = suffix

\* sub in s
contains(s, sub) ==
    \E i \in 1..(Len(s) - Len(sub) + 1) : SubSeq(s, i, i + Len(sub) - 1) = sub

Whitespace == {" ", "\n", "\t"}

\* str.strip()
strip(s) ==
    LET I == {i \in 1..Len(s) : s[i] \notin Whitespace}
    IN IF I = {} THEN <<>> ELSE SubSeq(s, Min(I), Max(I))

\* str.split(sep) for a one-character separator: always at least one piece
RECURSIVE split(_, _)
split(s, sep) ==
    LET i == FindFirst(s, {sep})
    IN IF i = 0 THEN <<s>>
       ELSE <<SubSeq(s, 1, i - 1)>> \o split(Tail_from(s, i + 1), sep)

\* sep.join(parts)
RECURSIVE join(_, _)
join(sep, parts) ==
    IF Len(parts) = 0 THEN <<>>
    ELSE IF Len(parts) = 1 THEN parts[1]
    ELSE parts[1] \o sep \o join(sep, Tail(parts))

\* "".join(parts) for parts[lo..hi], halving the range
RECURSIVE concat_range(_, _, _)
concat_range(parts, lo, hi) ==
    IF lo > hi THEN <<>>
    ELSE IF lo = hi THEN parts[lo]
    ELSE concat_range(parts, lo, (lo + hi) \div 2)
         \o concat_range(parts, (lo + hi) \div 2 + 1, hi)

concat(parts) == concat_range(parts, 1, Len(parts))

\* the elements of a finite set of integers in increasing order; rank[i] is
\* the number of elements up to i
ordered_by(S, rank) == [n \in 1..Cardinality(S) |-> CHOOSE i \in S : rank[i] = n]

ordered(S) == ordered_by(S, [i \in S |-> Cardinality({j \in S : j <= i})])

(***************************************************************************)
(* urllib.parse as webscrape.py uses it                                    *)
(***************************************************************************)
HTTP == <<"h","t","t","p">>

HTTPS == <<"h","t","t","p","s">>

MAILTO == <<"m","a","i","l","t","o">>

\* urllib.parse.uses_params / uses_relative / uses_netloc, restricted to the
\* schemes the model's URLs use ('' is the empty scheme)
uses_params == {<<>>, HTTP, HTTPS}

uses_relative == {<<>>, HTTP, HTTPS}

uses_netloc == {<<>>, HTTP, HTTPS}

scheme_chars == Range(LowerCase) \cup Range(UpperCase) \cup Range(Digits) \cup {"+", "-", "."}

\* str.partition(sep) for a one-character separator, given the index of its
\* first occurrence (0 when it does not occur)
partition_at(s, i) ==
    IF i = 0 THEN [left |-> s, right |-> <<>>]
    ELSE [left |-> SubSeq(s, 1, i - 1), right |-> Tail_from(s, i + 1)]

partition(s, sep) == partition_at(s, FindFirst(s, {sep}))

\* urlsplit, the scheme: the text before the first ':' when it starts with a
\* letter and holds scheme characters only; i is url.find(':'), 1-based
split_scheme_at(u, default, i) ==
    IF /\ i > 1
       /\ u[1] \in Range(LowerCase) \cup Range(UpperCase)
       /\ \A k \in 1..(i - 1) : u[k] \in scheme_chars
    THEN [scheme |-> lower(SubSeq(u, 1, i - 1)), rest |-> Tail_from(u, i + 1)]
    ELSE [scheme |-> default, rest |-> u]

split_scheme(u, default) == split_scheme_at(u, default, FindFirst(u, {":"}))

\* _splitnetloc(url, 2): the netloc ends at the first of '/', '?', '#';
\* d is that index in after, the text that follows the two slashes
splitnetloc_at(after, d) ==
    IF d = 0 THEN [netloc |-> after, rest |-> <<>>]
    ELSE [netloc |-> SubSeq(after, 1, d - 1), rest |-> Tail_from(after, d)]

splitnetloc(after) == splitnetloc_at(after, FindFirst(after, {"/", "?", "#"}))

\* urlsplit, the netloc: only when the rest starts with '//'
split_netloc(rest) ==
    IF Len(rest) >= 2 /\ rest[1] = "/" /\ rest[2] = "/"
    THEN splitnetloc(Tail_from(rest, 3))
    ELSE [netloc |-> <<>>, rest |-> rest]

\* _splitparams: the first ';' after the last '/'; sl is url.rfind('/') and
\* semi the index of that ';' counted from sl, both 1-based, 0 when none
splitparams_at(p, sl, semi) ==
    IF semi = 0 THEN [path |-> p, params |-> <<>>]
    ELSE [path |-> SubSeq(p, 1, sl + semi - 1), params |-> Tail_from(p, sl + semi + 1)]

splitparams_from(p, sl) == splitparams_at(p, sl, FindFirst(Tail_from(p, sl + 1), {";"}))

splitparams(scheme, p) ==
    IF scheme \in uses_params THEN splitparams_from(p, FindLast(p, "/"))
    ELSE [path |-> p, params |-> <<>>]

\* the ParseResult; urlsplit raises ValueError("Invalid IPv6 URL") when the
\* netloc has one bracket without the other: invalid
parse_result(scheme, netloc, pp, query, fragment) ==
    [scheme |-> scheme, netloc |-> netloc, path |-> pp.path, params |-> pp.params,
     query |-> query, fragment |-> fragment,
     invalid |-> ("[" \in Range(netloc)) # ("]" \in Range(netloc))]

\* urlsplit goes on: #fragment first, then ?query; urlparse then splits the
\* params off the path
parse_query(scheme, netloc, q, fragment) ==
    parse_result(scheme, netloc, splitparams(scheme, q.left), q.right, fragment)

parse_fragment(scheme, netloc, f) ==
    parse_query(scheme, netloc, partition(f.left, "?"), f.right)

parse_netloc(scheme, n) == parse_fragment(scheme, n.netloc, partition(n.rest, "#"))

parse_scheme(a) == parse_netloc(a.scheme, split_netloc(a.rest))

\* urlparse(url, scheme=default)
urlparse_with(u, default) == parse_scheme(split_scheme(u, default))

urlparse(u) == urlparse_with(u, <<>>)

\* urlunsplit: '//' netloc before the path when there is a netloc, or a
\* scheme that uses one and a path that does not start with '//'
unsplit_netloc(scheme, netloc, p) ==
    IF \/ netloc # <<>>
       \/ (scheme # <<>> /\ scheme \in uses_netloc
           /\ ~(Len(p) >= 2 /\ p[1] = "/" /\ p[2] = "/"))
    THEN <<"/", "/">> \o netloc
         \o (IF p # <<>> /\ p[1] # "/" THEN <<"/">> ELSE <<>>) \o p
    ELSE p

\* urlunparse: params go back on the path, then urlunsplit
urlunparse(scheme, netloc, path, params, query, fragment) ==
    (IF scheme # <<>> THEN scheme \o <<":">> ELSE <<>>)
    \o unsplit_netloc(scheme, netloc,
                      IF params # <<>> THEN path \o <<";">> \o params ELSE path)
    \o (IF query # <<>> THEN <<"?">> \o query ELSE <<>>)
    \o (IF fragment # <<>> THEN <<"#">> \o fragment ELSE <<>>)

\* the loop of urljoin that resolves '.' and '..' segments
RECURSIVE resolve_dots(_, _)
resolve_dots(segments, acc) ==
    IF Len(segments) = 0 THEN acc
    ELSE IF Head(segments) = <<".", ".">>
    THEN resolve_dots(Tail(segments),
                      IF Len(acc) > 1 THEN SubSeq(acc, 1, Len(acc) - 1) ELSE acc)
    ELSE IF Head(segments) = <<".">> THEN resolve_dots(Tail(segments), acc)
    ELSE resolve_dots(Tail(segments), Append(acc, Head(segments)))

\* segments[1:-1] = filter(None, segments[1:-1])
drop_empty_inner(segments) ==
    IF Len(segments) <= 2 THEN segments
    ELSE <<segments[1]>>
         \o SelectSeq(SubSeq(segments, 2, Len(segments) - 1), LAMBDA x : x # <<>>)
         \o <<segments[Len(segments)]>>

\* base_parts of urljoin: the base path's pieces without the last, unless
\* that is empty
base_parts_of(pieces) ==
    IF pieces[Len(pieces)] # <<>> THEN SubSeq(pieces, 1, Len(pieces) - 1) ELSE pieces

\* segments of urljoin
join_segments(bpath, path) ==
    IF path # <<>> /\ path[1] = "/" THEN split(path, "/")
    ELSE drop_empty_inner(base_parts_of(split(bpath, "/")) \o split(path, "/"))

\* resolved_path of urljoin, joined
resolved_path(segments) ==
    join(<<"/">>,
         IF segments[Len(segments)] \in {<<".">>, <<".", ".">>}
         THEN Append(resolve_dots(segments, <<>>), <<>>)
         ELSE resolve_dots(segments, <<>>))

or_slash(p) == IF p = <<>> THEN <<"/">> ELSE p

\* urljoin once both URLs are parsed: b the base, u the reference
urljoin_parsed(href, b, u) ==
    IF u.scheme # b.scheme \/ u.scheme \notin uses_relative THEN href
    ELSE IF u.scheme \in uses_netloc /\ u.netloc # <<>>
    THEN urlunparse(u.scheme, u.netloc, u.path, u.params, u.query, u.fragment)
    ELSE IF u.path = <<>> /\ u.params = <<>>
    THEN urlunparse(u.scheme, IF u.scheme \in uses_netloc THEN b.netloc ELSE u.netloc,
                    b.path, b.params,
                    IF u.query = <<>> THEN b.query ELSE u.query, u.fragment)
    ELSE urlunparse(u.scheme, IF u.scheme \in uses_netloc THEN b.netloc ELSE u.netloc,
                    or_slash(resolved_path(join_segments(b.path, u.path))),
                    u.params, u.query, u.fragment)

urljoin_base(href, b) == urljoin_parsed(href, b, urlparse_with(href, b.scheme))

\* urljoin(base, url); the ValueError of either urlparse is urljoin_raises
urljoin(base, href) ==
    IF base = <<>> THEN href
    ELSE IF href = <<>> THEN base
    ELSE urljoin_base(href, urlparse(base))

urljoin_raises_base(href, b) == b.invalid \/ urlparse_with(href, b.scheme).invalid

urljoin_raises(base, href) ==
    /\ base # <<>>
    /\ href # <<>>
    /\ urljoin_raises_base(href, urlparse(base))

(***************************************************************************)
(* URL classifier                                                          *)
(***************************************************************************)
SKIP_EXTENSIONS ==
    { <<".","p","d","f">>, <<".","j","p","g">>, <<".","j","p","e","g">>,
      <<".","p","n","g">>, <<".","g","i","f">>, <<".","s","v","g">>,
      <<".","c","s","s">>, <<".","j","s">>, <<".","x","m","l">>,
      <<".","z","i","p">>, <<".","d","o","c">>, <<".","d","o","c","x">>,
      <<".","x","l","s">>, <<".","x","l","s","x">>, <<".","p","p","t">>,
      <<".","p","p","t","x">> }

skip_params ==
    { <<"p","a","g","e">>, <<"p">>, <<"i","d">>, <<"r","e","f">>,
      <<"u","t","m","_">>, <<"f","b","c","l","i","d">>, <<"g","c","l","i","d">> }

\* more than this many non-empty path segments is too deep
MAX_PATH_SEGMENTS == 4

internal_parsed(parsed, base_netloc) ==
    IF parsed.netloc = <<>> THEN TRUE ELSE parsed.netloc = base_netloc

is_internal_link(link, base_netloc) == internal_parsed(urlparse(link), base_netloc)

path_segments(parsed) == SelectSeq(split(parsed.path, "/"), LAMBDA seg : seg # <<>>)

\* should_skip_url comparing the path as written, without lower()
skip_parsed_case_sensitive(parsed) ==
    IF \E ext \in SKIP_EXTENSIONS : endswith(parsed.path, ext) THEN TRUE
    ELSE IF /\ parsed.query # <<>>
            /\ \E param \in skip_params : contains(lower(parsed.query), param)
    THEN TRUE
    ELSE IF Len(path_segments(parsed)) > MAX_PATH_SEGMENTS THEN TRUE
    ELSE IF parsed.fragment # <<>> THEN TRUE
    ELSE FALSE

should_skip_url_case_sensitive(u) == skip_parsed_case_sensitive(urlparse(u))

\* should_skip_url with the depth test off by one (>= for >)
skip_parsed_depth_off_by_one(parsed) ==
    IF \E ext \in SKIP_EXTENSIONS : endswith(lower(parsed.path), ext) THEN TRUE
    ELSE IF /\ parsed.query # <<>>
            /\ \E param \in skip_params : contains(lower(parsed.query), param)
    THEN TRUE
    ELSE IF Len(path_segments(parsed)) >= MAX_PATH_SEGMENTS THEN TRUE
    ELSE IF parsed.fragment # <<>> THEN TRUE
    ELSE FALSE

should_skip_url_depth_off_by_one(u) == skip_parsed_depth_off_by_one(urlparse(u))

\* the body of should_skip_url after parsed = urlparse(url)
skip_parsed(parsed) ==
    IF \E ext \in SKIP_EXTENSIONS : endswith(lower(parsed.path), ext) THEN TRUE
    ELSE IF /\ parsed.query # <<>>
            /\ \E param \in skip_params : contains(lower(parsed.query), param)
    THEN TRUE
    ELSE IF Len(path_segments(parsed)) > MAX_PATH_SEGMENTS THEN TRUE
    ELSE IF parsed.fragment # <<>> THEN TRUE
    ELSE FALSE

should_skip_url(u) == skip_parsed(urlparse(u))

(***************************************************************************)
(* should_skip_url on assembled URLs                                       *)
(***************************************************************************)
\* most path segments of an assembled URL
MaxSegs == 6

HTML_EXT == <<".","h","t","m","l">>

\* query strings with no denylisted substring, and with one
CleanQueries == { <<>>, <<"x","=","1">> }

DenyQueries == { <<"p","a","g","e","=","2">>, <<"I","D","=","3">>,
                 <<"q","=","u","p">>, <<"a","&","u","t","m","_","x">> }

\* the parts of the URLs with at most m path segments
SkipInputs(m) ==
    [ n      : 0..m,                             \* non-empty path segments
      sep    : {<<"/">>, <<"/", "/">>},            \* separator between segments
      ext    : SKIP_EXTENSIONS \cup {<<>>, HTML_EXT}, \* suffix of the last segment
      caps   : BOOLEAN,                          \* suffix in upper case
      tail   : {<<>>, <<"/">>},                    \* what follows the last segment
      params : {<<>>, <<";","v">>},
      query  : CleanQueries \cup DenyQueries,
      frag   : {<<>>, <<"t","o","p">>} ]

\* the inputs that make sense: a suffix needs a segment to sit on
SkipInputOk(d) ==
    /\ d.ext # <<>> => d.n >= 1
    /\ d.caps => d.ext # <<>>
    /\ d.n = 0 => d.sep = <<"/">>

RECURSIVE SegPath(_, _, _)
SegPath(n, sep, last) ==
    IF n = 0 THEN <<>>
    ELSE IF n = 1 THEN <<"s">> \o last
    ELSE <<"s">> \o sep \o SegPath(n - 1, sep, last)

BuildUrl(d) ==
    HTTPS \o <<":","/","/","a",".","c","o","m">>
    \o <<"/">> \o SegPath(d.n, d.sep, IF d.caps THEN upper(d.ext) ELSE d.ext)
    \o (IF d.n = 0 THEN <<>> ELSE d.tail)
    \o d.params
    \o (IF d.query = <<>> THEN <<>> ELSE <<"?">> \o d.query)
    \o (IF d.frag = <<>> THEN <<>> ELSE <<"#">> \o d.frag)

SkipInit ==
    /\ sk_pc = "call"
    /\ sk_in \in {d \in SkipInputs(MaxSegs) : SkipInputOk(d)}
    /\ sk_url = BuildUrl(sk_in)
    /\ sk_result = FALSE

SkipIdle ==
    /\ sk_pc = "idle"
    /\ sk_in = <<>>
    /\ sk_url = <<>>
    /\ sk_result = FALSE

CallShouldSkip ==
    /\ sk_pc = "call"
    /\ sk_result' = should_skip_url(sk_url)
    /\ sk_pc' = "done"
    /\ UNCHANGED <<sk_in, sk_url>>
    /\ UNCHANGED <<extractVars, ingestVars, crawlVars>>

\* the assembled path ends in a denylisted extension, in either case
EndsInSkipExtension(d) == d.ext \in SKIP_EXTENSIONS /\ d.tail = <<>>

\* C9: a URL whose path ends, in either case, in an extension of
\* SKIP_EXTENSIONS is skipped, whatever its query string, fragment, params
\* and number of path segments.
C9_ExtensionAlwaysSkipped ==
    (sk_pc = "done" /\ EndsInSkipExtension(sk_in)) => sk_result = TRUE

\* C9 witness: an upper-case extension on a shallow path with a harmless
\* query string and no fragment has been classified skip.
C9_Witness ==
    /\ sk_pc = "done"
    /\ EndsInSkipExtension(sk_in)
    /\ sk_in.caps
    /\ sk_in.n = 1
    /\ sk_in.query = <<"x","=","1">>
    /\ sk_in.frag = <<>>
    /\ sk_result = TRUE

\* C10: a URL with 5 or more non-empty path segments is skipped; a URL with
\* 4 or fewer, no denylisted extension at the end of its path, no denylisted
\* substring in its query string and no fragment is not skipped.
C10_DepthRule ==
    sk_pc = "done" =>
        /\ sk_in.n >= 5 => sk_result = TRUE
        /\ ( /\ sk_in.n <= 4
             /\ ~EndsInSkipExtension(sk_in)
             /\ sk_in.query \in CleanQueries
             /\ sk_in.frag = <<>> ) => sk_result = FALSE

\* C10 witness: both sides of the boundary are among the classified URLs;
\* this one has exactly 5 segments separated by doubled slashes and nothing
\* else that disqualifies it.
C10_Witness ==
    /\ sk_pc = "done"
    /\ sk_in.n = 5
    /\ sk_in.sep = <<"/", "/">>
    /\ sk_in.ext = <<>>
    /\ sk_in.query = <<>>
    /\ sk_in.frag = <<>>
    /\ sk_result = TRUE

(***************************************************************************)
(* Content extractor                                                       *)
(***************************************************************************)
\* A parsed document (sp): title is <<>> when there is no title element and
\* <<strings>> when there is one; elems are the body's elements in document
\* order, each with its tag, the strings (text nodes) under it, and href,
\* <<>> without the attribute and <<value>> with it.

\* Tag.get_text(strip=True): every string stripped, the empty ones dropped,
\* the rest joined with no separator
get_text(strings) ==
    join(<<>>, SelectSeq([i \in 1..Len(strings) |-> strip(strings[i])],
                         LAMBDA t : t # <<>>))

\* sp.find_all(tag): the elements with that tag, in document order
find_all(sp, tag) == SelectSeq(sp.elems, LAMBDA el : el.tag = tag)

EXTRACT_TAGS == <<"h1", "h2", "h3", "p">>

\* the inner loop of extract_text for one tag
texts_of_tag(sp, tag) ==
    LET els == find_all(sp, tag)
    IN SelectSeq([i \in 1..Len(els) |-> get_text(els[i].strings)],
                 LAMBDA txt : txt # <<>>)

RECURSIVE texts_of_tags(_, _)
texts_of_tags(sp, tags) ==
    IF Len(tags) = 0 THEN <<>>
    ELSE texts_of_tag(sp, Head(tags)) \o texts_of_tags(sp, Tail(tags))

\* the list texts with one pass over the elements in document order
extract_texts_document_order(sp) ==
    (IF sp.title # <<>> THEN <<get_text(sp.title[1])>> ELSE <<>>)
    \o LET els == SelectSeq(sp.elems, LAMBDA el : el.tag \in Range(EXTRACT_TAGS))
       IN SelectSeq([i \in 1..Len(els) |-> get_text(els[i].strings)],
                    LAMBDA txt : txt # <<>>)

\* the list texts of extract_text when it returns
extract_texts(sp) ==
    (IF sp.title # <<>> THEN <<get_text(sp.title[1])>> ELSE <<>>)
    \o texts_of_tags(sp, EXTRACT_TAGS)

extract_text(sp) == join(<<"\n">>, extract_texts(sp))

(***************************************************************************)
(* extract_text on small documents                                         *)
(***************************************************************************)
\* most elements in a document's body
MaxElems == 3

ElemLetters == <<"a", "b", "c", "d", "e", "f">>

\* the strings under the k-th element: whitespace only, or two padded text
\* nodes; words differ from element to element
ElemStrings(k) ==
    { << <<" ">> >>,
      << <<" ", ElemLetters[k]>>, <<ElemLetters[k], "\n">> >> }

ElemChoices(k) ==
    [ tag : {"h1", "h2", "h3", "p", "div"}, strings : ElemStrings(k), href : {<<>>} ]

RECURSIVE ElemSeqs(_)
ElemSeqs(n) ==
    IF n = 0 THEN {<<>>}
    ELSE {Append(es, el) : es \in ElemSeqs(n - 1), el \in ElemChoices(n)}

\* no title element, one without a string, one with a whitespace string,
\* one with a padded word
TitleChoices ==
    { <<>>, << <<>> >>, << << <<" ">> >> >>, << << <<" ", "T", " ">> >> >> }

\* the documents with at most m elements in the body
ExtractInputs(m) ==
    [ title : TitleChoices,
      elems : UNION {ElemSeqs(n) : n \in 0..m} ]

ExtractInit ==
    /\ ex_pc = "call"
    /\ ex_soup \in ExtractInputs(MaxElems)
    /\ ex_out = <<>>

ExtractIdle ==
    /\ ex_pc = "idle"
    /\ ex_soup = <<>>
    /\ ex_out = <<>>

CallExtractText ==
    /\ ex_pc = "call"
    /\ ex_out' = extract_text(ex_soup)
    /\ ex_pc' = "done"
    /\ UNCHANGED ex_soup
    /\ UNCHANGED <<skipVars, ingestVars, crawlVars>>

\* the lines of the returned string
OutLines == IF ex_out = <<>> THEN <<>> ELSE split(ex_out, "\n")

\* the lines after the title's
BodyLines ==
    IF ex_soup.title # <<>> /\ Len(OutLines) >= 1 THEN Tail(OutLines) ELSE OutLines

\* the elements that have a line of their own in the output
Contributing ==
    {k \in 1..Len(ex_soup.elems) :
        /\ ex_soup.elems[k].tag \in {"h1", "h2", "h3", "p"}
        /\ get_text(ex_soup.elems[k].strings) # <<>>}

\* the element a body line comes from (the words differ between elements)
SourceOf(line) ==
    CHOOSE k \in Contributing : get_text(ex_soup.elems[k].strings) = line

GroupRank == [h1 |-> 1, h2 |-> 2, h3 |-> 3, p |-> 4]

C8_NoEmptyLine ==
    ex_pc = "done" =>
        \A i \in 1..Len(OutLines) :
            OutLines[i] # <<>> /\ strip(OutLines[i]) = OutLines[i]

(***************************************************************************)
(* Index build entry point (ingest.py)                                     *)
(***************************************************************************)
\* most lines in the record store
MaxLines == 2

\* A line of the record store is whitespace only ("blank"), a JSON object
\* ("object": text and url are <<>> when the key is missing and <<value>>
\* when it is there), or not JSON at all ("malformed").
BlankLine == [kind |-> "blank", text |-> <<>>, url |-> <<>>]

MalformedLine == [kind |-> "malformed", text |-> <<>>, url |-> <<>>]

ObjectLine(text, u) == [kind |-> "object", text |-> text, url |-> u]

URL_A == <<"h","t","t","p","s",":","/","/","e",".","t","/","a">>

LineChoices ==
    { BlankLine, MalformedLine,
      ObjectLine(<<>>, << URL_A >>),                       \* no "text" key
      ObjectLine(<< <<>> >>, << URL_A >>),                 \* "text": ""
      ObjectLine(<< <<" ", "\n">> >>, << URL_A >>),        \* "text": " \n"
      ObjectLine(<< <<"h", "i">> >>, << URL_A >>),
      ObjectLine(<< <<" ", "h", "i", " ">> >>, <<>>) }     \* no "url" key

RECURSIVE LineSeqs(_)
LineSeqs(n) ==
    IF n = 0 THEN {<<>>}
    ELSE {Append(ls, l) : ls \in LineSeqs(n - 1), l \in LineChoices}

\* the directory on disk: whether it exists and the files in it, each
\* <<name, version>> with version "old" (there before the run) or "new"
NoDir == [exists |-> FALSE, files |-> {}]

EmptyDir == [exists |-> TRUE, files |-> {}]

OldIndex ==
    [exists |-> TRUE, files |-> {<<"index.faiss", "old">>, <<"index.pkl", "old">>}]

NewIndex ==
    [exists |-> TRUE, files |-> {<<"index.faiss", "new">>, <<"index.pkl", "new">>}]

\* obj.get(key, "")
dict_get(option) == IF option = <<>> THEN <<>> ELSE option[1]

\* the lines json.loads raises on
malformed(lines) == {i \in 1..Len(lines) : lines[i].kind = "malformed"}

\* the lines the loop of load_jsonl reaches
lines_read(lines) ==
    IF malformed(lines) = {} THEN 1..Len(lines) ELSE 1..Min(malformed(lines))

\* the lines the loop appends a Document for: objects with a text that is
\* not empty when trimmed
lines_kept(lines) ==
    {i \in lines_read(lines) :
        /\ lines[i].kind = "object"
        /\ strip(dict_get(lines[i].text)) # <<>>}

\* Document(page_content=text, metadata={"source": source})
Document(line) ==
    [page_content |-> strip(dict_get(line.text)),
     metadata |-> [source |-> dict_get(line.url)]]

docs_of(lines, kept) == [n \in 1..Len(kept) |-> Document(lines[kept[n]])]

\* load_jsonl: the documents, or raised when json.loads raises on a line
load_jsonl(lines) ==
    [raised |-> malformed(lines) # {},
     docs |-> docs_of(lines, ordered(lines_kept(lines)))]

MissingFile == [exists |-> FALSE, lines |-> <<>>]

NO_VALID_DOCUMENTS == "ValueError: No valid documents found in the supplied JSONL file."

IngestInit ==
    /\ ig_pc = "mkdir"
    /\ data_file \in {MissingFile}
                     \cup {[exists |-> TRUE, lines |-> ls] :
                              ls \in UNION {LineSeqs(n) : n \in 0..MaxLines}}
    /\ out_dir \in {NoDir, EmptyDir, OldIndex}
    /\ out_dir_before = out_dir
    /\ documents = <<>>
    /\ ig_error = ""

IngestIdle ==
    /\ ig_pc = "idle"
    /\ data_file = MissingFile
    /\ out_dir = NoDir
    /\ out_dir_before = NoDir
    /\ documents = <<>>
    /\ ig_error = ""

IngestRaise(error) ==
    /\ ig_pc' = "raised"
    /\ ig_error' = error

\* out_path.mkdir(parents=True, exist_ok=True)
MainMkdir ==
    /\ ig_pc = "mkdir"
    /\ out_dir' = IF out_dir.exists THEN out_dir ELSE EmptyDir
    /\ ig_pc' = "load"
    /\ UNCHANGED <<data_file, out_dir_before, documents, ig_error>>
    /\ UNCHANGED <<skipVars, extractVars, crawlVars>>

\* documents = load_jsonl(data_path)
MainLoad ==
    /\ ig_pc = "load"
    /\ IF ~data_file.exists
       THEN IngestRaise("FileNotFoundError") /\ UNCHANGED documents
       ELSE IF load_jsonl(data_file.lines).raised
       THEN IngestRaise("JSONDecodeError") /\ UNCHANGED documents
       ELSE /\ documents' = load_jsonl(data_file.lines).docs
            /\ ig_pc' = "check"
            /\ UNCHANGED ig_error
    /\ UNCHANGED <<data_file, out_dir, out_dir_before>>
    /\ UNCHANGED <<skipVars, extractVars, crawlVars>>

\* if not documents: raise ValueError(...)
MainCheck ==
    /\ ig_pc = "check"
    /\ IF documents = <<>>
       THEN IngestRaise(NO_VALID_DOCUMENTS)
       ELSE ig_pc' = "split" /\ UNCHANGED ig_error
    /\ UNCHANGED <<data_file, out_dir, out_dir_before, documents>>
    /\ UNCHANGED <<skipVars, extractVars, crawlVars>>

\* build_faiss_index: splitter.split_documents(documents)
BuildSplit ==
    /\ ig_pc = "split"
    /\ ig_pc' = "embed"
    /\ UNCHANGED <<data_file, out_dir, out_dir_before, documents, ig_error>>
    /\ UNCHANGED <<skipVars, extractVars, crawlVars>>

\* build_faiss_index: get_embeddings() and the test embed_query, re-raised
\* when either raises
BuildEmbed ==
    /\ ig_pc = "embed"
    /\ \E ok \in BOOLEAN :
          IF ok THEN ig_pc' = "faiss" /\ UNCHANGED ig_error
          ELSE IngestRaise("embedding model error")
    /\ UNCHANGED <<data_file, out_dir, out_dir_before, documents>>
    /\ UNCHANGED <<skipVars, extractVars, crawlVars>>

\* build_faiss_index: FAISS.from_documents(chunks, embedder)
BuildFaiss ==
    /\ ig_pc = "faiss"
    /\ \E ok \in BOOLEAN :
          IF ok THEN ig_pc' = "save" /\ UNCHANGED ig_error
          ELSE IngestRaise("FAISS construction error")
    /\ UNCHANGED <<data_file, out_dir, out_dir_before, documents>>
    /\ UNCHANGED <<skipVars, extractVars, crawlVars>>

\* build_faiss_index: vectordb.save_local(str(out_dir)) writes index.faiss
\* and then index.pkl into the directory; it may raise before the first
\* file, between the two, or not at all
BuildSave ==
    /\ ig_pc = "save"
    /\ \E written \in 0..2 :
          LET keep(name) == {f \in out_dir.files : f[1] = name}
              faiss == IF written >= 1 THEN {<<"index.faiss", "new">>}
                       ELSE keep("index.faiss")
              pkl == IF written = 2 THEN {<<"index.pkl", "new">>}
                     ELSE keep("index.pkl")
          IN /\ out_dir' = [exists |-> TRUE, files |-> faiss \cup pkl]
             /\ IF written = 2 THEN ig_pc' = "done" /\ UNCHANGED ig_error
                ELSE IngestRaise("save error")
    /\ UNCHANGED <<data_file, out_dir_before, documents>>
    /\ UNCHANGED <<skipVars, extractVars, crawlVars>>

\* the record store holds no valid document: no line, blank lines, or
\* objects whose text is missing, empty or whitespace
ZeroValidDocuments ==
    /\ data_file.exists
    /\ \A i \in 1..Len(data_file.lines) :
          LET line == data_file.lines[i] IN
          \/ line.kind = "blank"
          \/ /\ line.kind = "object"
             /\ \/ line.text = <<>>
                \/ \A k \in 1..Len(line.text[1]) : line.text[1][k] \in Whitespace

IngestEnded == ig_pc \in {"raised", "done"}

\* C5: a run on a record store with zero valid documents fails with the
\* 'No valid documents' error and leaves no output directory when there was
\* none before the run.
C5_NoDirectoryOnEmptyInput ==
    (IngestEnded /\ ZeroValidDocuments) =>
        /\ ig_error = NO_VALID_DOCUMENTS
        /\ ~out_dir_before.exists => ~out_dir.exists

\* C6: after a run that failed, the output directory is absent or exactly
\* as it was before the run.
C6_AllOrNothing ==
    ig_pc = "raised" => (~out_dir.exists \/ out_dir = out_dir_before)

(***************************************************************************)
(* Frontier crawler (webscrape.py: get_links, scrape_site, main)           *)
(***************************************************************************)
DOMAINS == << <<"h","t","t","p","s",":","/","/","w","w","w",".","j","e","w","e","l","c","h","a","n","g","i","a","i","r","p","o","r","t",".","c","o","m","/">>,
             <<"h","t","t","p","s",":","/","/","w","w","w",".","c","h","a","n","g","i","a","i","r","p","o","r","t",".","c","o","m","/">> >>

MAX_PAGES_PER_DOMAIN == 100

MAX_TOTAL_PAGES == 200

\* a page is kept when its stripped text is longer than this
MIN_CONTENT_LENGTH == 50

\* at most this many links of one page join the frontier
MAX_LINKS_PER_PAGE == 10

PARSERS == <<"html.parser", "lxml", "html5lib">>

\* the a elements that have an href attribute, in document order
anchors(sp) == SelectSeq(sp.elems, LAMBDA el : el.tag = "a" /\ el.href # <<>>)

\* a["href"].split("#")[0]
strip_fragment(href) == split(href, "#")[1]

\* get_links raises when urljoin, or the urlparse of is_internal_link and
\* should_skip_url, raises on one of the hrefs
href_raises(base, href) ==
    urljoin_raises(base, href) \/ urlparse(urljoin(base, href)).invalid

get_links_raises(sp, base) ==
    \E el \in Range(anchors(sp)) : href_raises(base, strip_fragment(el.href[1]))

\* the filter of get_links without the is_internal_link test
keep_link_without_internal_test(full_url, base_netloc) == ~should_skip_url(full_url)

keep_link(full_url, base_netloc) ==
    is_internal_link(full_url, base_netloc) /\ ~should_skip_url(full_url)

get_links(sp, base) ==
    { full_url \in { urljoin(base, strip_fragment(el.href[1])) :
                       el \in Range(anchors(sp)) } :
        keep_link(full_url, urlparse(base).netloc) }

\* the condition of scrape_site's while loop, with <= for < in the page tests
loop_condition_off_by_one ==
    /\ to_visit # {}
    /\ pages_scraped <= MAX_PAGES_PER_DOMAIN
    /\ total_scraped_count <= MAX_TOTAL_PAGES

\* the condition of scrape_site's while loop
loop_condition ==
    /\ to_visit # {}
    /\ pages_scraped < MAX_PAGES_PER_DOMAIN
    /\ total_scraped_count < MAX_TOTAL_PAGES

(***************************************************************************)
(* The webs crawled.  A response is what requests.get gives for a URL:     *)
(* exception (raised by requests.get itself), else the status code, the    *)
(* parsers that raise on the body, and the document the others build.      *)
(***************************************************************************)
\* pages after the root in each origin of the "chain" web
ChainLen == 100

Repeat(c, n) == [i \in 1..n |-> c]

RECURSIVE Dec(_)
Dec(n) == IF n < 10 THEN <<Digits[n + 1]>>
          ELSE Dec(n \div 10) \o <<Digits[(n % 10) + 1]>>

Para(text) == [tag |-> "p", strings |-> <<text>>, href |-> <<>>]

Anchor(href) == [tag |-> "a", strings |-> <<>>, href |-> <<href>>]

Doc(title, text, hrefs) ==
    [title |-> title,
     elems |-> <<Para(text)>> \o [i \in 1..Len(hrefs) |-> Anchor(hrefs[i])]]

LongText == Repeat("x", MIN_CONTENT_LENGTH + 1)

ShortText == <<"h", "i">>

\* a long text with a quote, a backslash and a tab in it
QuotedText == <<"\"", "\\", "n", "\t">> \o LongText \o <<"\\">>

NoResponse == [exception |-> TRUE, status_code |-> 0, failing |-> {}, doc |-> <<>>]

Exception == NoResponse

\* a response with any status code; doc is what its body parses to
StatusPage(code, failing, doc) ==
    [exception |-> FALSE, status_code |-> code, failing |-> failing, doc |-> doc]

\* an error or redirection response: its body is a page with a long text
Status(code) == StatusPage(code, {}, Doc(<<>>, LongText, << <<"/", "e">> >>))

Page(failing, doc) == StatusPage(200, failing, doc)

\* "chain": in each origin the root links to page 1 and page i to page i+1;
\* every page has a long text
ChainHref(i) == <<"/", "n">> \o Dec(i)

\* the number a string of digits writes, 0 for the empty string
RECURSIVE Val(_)
Val(ds) ==
    IF Len(ds) = 0 THEN 0
    ELSE 10 * Val(SubSeq(ds, 1, Len(ds) - 1))
         + (CHOOSE k \in 0..9 : Digits[k + 1] = ds[Len(ds)])

\* the page number of a chain URL, 0 for the root and -1 for any other URL
ChainIndexOf(rel) ==
    IF rel = <<>> THEN 0
    ELSE IF /\ rel[1] = "n"
            /\ Len(rel) >= 2
            /\ \A k \in 2..Len(rel) : rel[k] \in Range(Digits)
            /\ Dec(Val(Tail(rel))) = Tail(rel)
            /\ Val(Tail(rel)) \in 1..ChainLen
    THEN Val(Tail(rel))
    ELSE -1

ChainIndex(u) ==
    IF \E d \in 1..Len(DOMAINS) : startswith(u, DOMAINS[d])
    THEN ChainIndexOf(Tail_from(u, 1 + Len(DOMAINS[
             CHOOSE d \in 1..Len(DOMAINS) : startswith(u, DOMAINS[d])])))
    ELSE -1

ChainPage(i) ==
    IF i < 0 THEN {Exception}
    ELSE {Page({}, Doc(<<>>, LongText,
                       IF i < ChainLen THEN <<ChainHref(i + 1)>> ELSE <<>>))}

ChainResponses(u) == ChainPage(ChainIndex(u))

\* "small": four pages in the first origin, two in the second, with links
\* of every kind and several possible responses per page
SmallRootHrefs ==
    << <<"/","a">>, <<"b">>, <<"/","a","#","t","o","p">>, <<"h","t","t","p","s",":","/","/","o","t","h","e","r",".","c","o","m","/","x">>, <<"/","d","o","c",".","p","d","f">>, <<"m","a","i","l","t","o",":","x","@","y",".","z">>, <<"/","1","/","2","/","3","/","4","/","5">>,
       <<"/","a","?","p","a","g","e","=","2">> >>

SmallResponses(u) ==
    IF u = DOMAINS[1]
    THEN {Page({}, Doc(<< <<<<"T">>>> >>, LongText, SmallRootHrefs))}
    ELSE IF u = DOMAINS[1] \o <<"a">>
    THEN {Exception,
          Page({}, Doc(<<>>, ShortText, << <<"/">>, <<"/", "b">>, <<"/", "c">> >>)),
          Page({"html.parser"}, Doc(<<>>, LongText, << <<"/", "b">> >>))}
    ELSE IF u = DOMAINS[1] \o <<"b">>
    THEN {Status(404),
          Page({"html.parser", "lxml", "html5lib"}, Doc(<<>>, LongText, <<>>)),
          Page({}, Doc(<< <<>> >>, Repeat("x", MIN_CONTENT_LENGTH), << <<"a">> >>))}
    ELSE IF u = DOMAINS[1] \o <<"c">>
    THEN {Page({"html.parser", "lxml"}, Doc(<<>>, LongText, << <<"h","t","t","p",":","/","/","[">> >>)),
          Page({}, Doc(<<>>, LongText, <<>>))}
    ELSE IF u = DOMAINS[2]
    THEN {Exception,
          Page({}, Doc(<< <<>> >>, QuotedText, << <<"/", "a">> >>))}
    ELSE IF u = DOMAINS[2] \o <<"a">>
    THEN {Status(500), Status(300), Page({}, Doc(<<>>, LongText, << <<"/">> >>))}
    ELSE {Exception}

\* "fan": the first root links to one leaf more than MAX_LINKS_PER_PAGE, and
\* no leaf can be fetched; the second root cannot be fetched either
FanLeaves == MAX_LINKS_PER_PAGE + 1

FanResponses(u) ==
    IF u = DOMAINS[1]
    THEN {Page({}, Doc(<<>>, ShortText,
                       [i \in 1..FanLeaves |-> <<"l">> \o Dec(i)]))}
    ELSE {Exception}

Sites == {"chain", "small", "fan"}

Responses(u) ==
    IF site = "chain" THEN ChainResponses(u)
    ELSE IF site = "small" THEN SmallResponses(u)
    ELSE FanResponses(u)

(***************************************************************************)
(* main and scrape_site, statement by statement                            *)
(***************************************************************************)
NoUrl == <<>>

ScrapeIdle ==
    /\ base_url = NoUrl
    /\ visited = {}
    /\ to_visit = {}
    /\ domain_data = <<>>
    /\ pages_scraped = 0
    /\ total_scraped_count = 0
    /\ url = NoUrl
    /\ resp = NoResponse
    /\ soup = <<>>
    /\ parsers_tried = <<>>
    /\ fetch_count = <<>>
    /\ fetch_attempts = 0
    /\ outcomes = {}

CrawlInit ==
    /\ site \in Sites
    /\ c_pc = "main"
    /\ domain_idx = 1
    /\ total_scraped = 0
    /\ fout = <<>>
    /\ output_file = <<>>
    /\ ScrapeIdle
    /\ fetched_since_sleep = FALSE
    /\ emitted = [d \in 1..Len(DOMAINS) |-> 0]

CrawlIdle ==
    /\ site = "none"
    /\ c_pc = "idle"
    /\ domain_idx = 1
    /\ total_scraped = 0
    /\ fout = <<>>
    /\ output_file = <<>>
    /\ ScrapeIdle
    /\ fetched_since_sleep = FALSE
    /\ emitted = [d \in 1..Len(DOMAINS) |-> 0]

NotCrawl == UNCHANGED <<skipVars, extractVars, ingestVars>>

(***************************************************************************)
(* The record store: json.dumps of main and the reading of load_jsonl      *)
(***************************************************************************)
\* the JSON escape of one character (ensure_ascii=False)
json_escape(c) ==
    IF c = "\"" THEN <<"\\", "\"">>
    ELSE IF c = "\\" THEN <<"\\", "\\">>
    ELSE IF c = "\n" THEN <<"\\", "n">>
    ELSE IF c = "\t" THEN <<"\\", "t">>
    ELSE <<c>>

\* json.dumps of a str without the escapes
json_dumps_string_unescaped(str) == <<"\"">> \o str \o <<"\"">>

\* json.dumps of a str
json_dumps_string(str) ==
    <<"\"">> \o concat([i \in 1..Len(str) |-> json_escape(str[i])]) \o <<"\"">>

URL_KEY == <<"{", "\"", "u", "r", "l", "\"", ":", " ">>

TEXT_KEY == <<",", " ", "\"", "t", "e", "x", "t", "\"", ":", " ">>

\* json.dumps(page, ensure_ascii=False) of a page {"url": ..., "text": ...}
json_dumps(page) ==
    URL_KEY \o json_dumps_string(page.url)
    \o TEXT_KEY \o json_dumps_string(page.text) \o <<"}">>

\* what the loop of fout.write calls appends to the file
written_lines(pages) ==
    concat([i \in 1..Len(pages) |-> json_dumps(pages[i]) \o <<"\n">>])

\* the indices of the newlines of a text
newlines(text) == {i \in 1..Len(text) : text[i] = "\n"}

\* "for line in f": the lines of a text, each with the newline that ends it;
\* ends holds the indices of the newlines in increasing order
lines_at(text, ends) ==
    [k \in 1..Len(ends) |->
        SubSeq(text, IF k = 1 THEN 1 ELSE ends[k - 1] + 1, ends[k])]
    \o (IF Len(text) > 0 /\ text[Len(text)] # "\n"
        THEN <<SubSeq(text, IF Len(ends) = 0 THEN 1 ELSE ends[Len(ends)] + 1,
                      Len(text))>>
        ELSE <<>>)

file_lines(text) == lines_at(text, ordered(newlines(text)))

\* the number of backslashes that stand right before text[j], counted back
\* to text[i], the first character of a JSON string's body
backslashes_before(text, i, j) ==
    j - 1 - (CHOOSE k \in (i - 1)..(j - 1) :
                /\ k = i - 1 \/ text[k] # "\\"
                /\ \A m \in (k + 1)..(j - 1) : text[m] = "\\")

\* text[j] is taken literally: an even number of backslashes is before it
unescaped(text, i, j) == backslashes_before(text, i, j) % 2 = 0

\* the quotes that can close the JSON string whose body starts at text[i]
closing_quotes(text, i) ==
    {j \in i..Len(text) : text[j] = "\"" /\ unescaped(text, i, j)}

\* what the body text[i..j] of a JSON string contributes at index k: an
\* unescaped backslash nothing, the character after it the character it
\* stands for, any other character itself
json_unescape(text, i, k) ==
    IF ~unescaped(text, i, k)
    THEN IF text[k] = "n" THEN <<"\n">>
         ELSE IF text[k] = "t" THEN <<"\t">>
         ELSE <<text[k]>>
    ELSE IF text[k] = "\\" THEN <<>>
    ELSE <<text[k]>>

\* the body text[i..j] is one json.loads accepts: no raw control character
\* and no escape but \" \\ \/ \n \t
json_body_ok(text, i, j) ==
    \A k \in i..j :
        /\ text[k] \notin {"\n", "\t"}
        /\ ~unescaped(text, i, k) => text[k] \in {"\"", "\\", "/", "n", "t"}

\* the JSON string whose body starts at text[i] and ends before text[j]
json_string_to(text, i, j) ==
    [ok |-> json_body_ok(text, i, j - 1),
     value |-> concat([n \in 1..(j - i) |-> json_unescape(text, i, i + n - 1)]),
     next |-> j + 1]

\* the JSON string that starts at text[i], which is to be its opening
\* quote; ok is FALSE when there is no string json.loads accepts, next is
\* the index after the closing quote
json_string(text, i) ==
    IF i <= Len(text) /\ text[i] = "\"" /\ closing_quotes(text, i + 1) # {}
    THEN json_string_to(text, i + 1, Min(closing_quotes(text, i + 1)))
    ELSE [ok |-> FALSE, value |-> <<>>, next |-> i]

\* text holds lit at index i
has_at(text, i, lit) ==
    /\ i + Len(lit) - 1 <= Len(text)
    /\ SubSeq(text, i, i + Len(lit) - 1) = lit

\* json.loads of a line that holds an object with the keys url and text,
\* stage by stage: u is the url string read, t the text string read; any
\* other line is one json.loads raises on
loads_end(text, u, t) ==
    IF t.ok /\ has_at(text, t.next, <<"}">>) /\ t.next = Len(text)
    THEN ObjectLine(<<t.value>>, <<u.value>>)
    ELSE MalformedLine

loads_text(text, u) ==
    IF u.ok /\ has_at(text, u.next, TEXT_KEY)
    THEN loads_end(text, u, json_string(text, u.next + Len(TEXT_KEY)))
    ELSE MalformedLine

json_loads(text) ==
    IF has_at(text, 1, URL_KEY)
    THEN loads_text(text, json_string(text, 1 + Len(URL_KEY)))
    ELSE MalformedLine

\* one line of the file as load_jsonl takes it: blank, an object, or one
\* json.loads raises on
read_line(line) ==
    IF strip(line) = <<>> THEN BlankLine ELSE json_loads(strip(line))

read_lines(lines) == [i \in 1..Len(lines) |-> read_line(lines[i])]

\* load_jsonl(Path(OUTPUT_FILE)) on the text of the file
load_jsonl_text(text) == load_jsonl(read_lines(file_lines(text)))

\* main: the head of "for domain in DOMAINS", the test of the total limit,
\* and the entry into scrape_site(domain, total_scraped)
MainFor ==
    /\ c_pc = "main"
    /\ IF domain_idx > Len(DOMAINS) \/ total_scraped >= MAX_TOTAL_PAGES
       THEN /\ c_pc' = "done"
            /\ UNCHANGED scrapeVars
       ELSE /\ c_pc' = "loop"
            /\ base_url' = DOMAINS[domain_idx]
            /\ visited' = {}
            /\ to_visit' = {DOMAINS[domain_idx]}
            /\ domain_data' = <<>>
            /\ pages_scraped' = 0
            /\ total_scraped_count' = total_scraped
            /\ fetch_count' = <<>>
            /\ fetch_attempts' = 0
            /\ outcomes' = {}
            /\ UNCHANGED <<url, resp, soup, parsers_tried, fetched_since_sleep, emitted>>
    /\ UNCHANGED mainVars
    /\ NotCrawl

\* scrape_site: the while condition is false
LoopExit ==
    /\ c_pc = "loop"
    /\ ~loop_condition
    /\ c_pc' = "return"
    /\ UNCHANGED <<mainVars, scrapeVars>>
    /\ NotCrawl

\* scrape_site returns domain_data and total_scraped_count; main takes the
\* new total and writes the pages
Return ==
    /\ c_pc = "return"
    /\ c_pc' = "main"
    /\ total_scraped' = total_scraped_count
    /\ fout' = fout \o domain_data
    /\ output_file' = output_file \o written_lines(domain_data)
    /\ domain_idx' = domain_idx + 1
    /\ UNCHANGED <<site, scrapeVars>>
    /\ NotCrawl

\* the loop as "while to_visit:", with neither page test in the condition
\* nor the test of the total limit after the pop
LoopPop_without_budget_tests ==
    /\ c_pc = "loop"
    /\ to_visit # {}
    /\ \E u \in to_visit :
          /\ url' = u
          /\ to_visit' = to_visit \ {u}
          /\ IF u \in visited THEN c_pc' = "loop" ELSE c_pc' = "fetch"
    /\ UNCHANGED <<mainVars, base_url, visited, domain_data, pages_scraped,
                   total_scraped_count, resp, soup, parsers_tried, fetch_count,
                   fetch_attempts, outcomes, fetched_since_sleep, emitted>>
    /\ NotCrawl

\* scrape_site: the while condition is true; pop, then the two tests
LoopPop ==
    /\ c_pc = "loop"
    /\ loop_condition
    /\ \E u \in to_visit :
          /\ url' = u
          /\ to_visit' = to_visit \ {u}
          /\ IF u \in visited THEN c_pc' = "loop"
             ELSE IF total_scraped_count >= MAX_TOTAL_PAGES THEN c_pc' = "return"
             ELSE c_pc' = "fetch"
    /\ UNCHANGED <<mainVars, base_url, visited, domain_data, pages_scraped,
                   total_scraped_count, resp, soup, parsers_tried, fetch_count,
                   fetch_attempts, outcomes, fetched_since_sleep, emitted>>
    /\ NotCrawl

\* the bookkeeping of one requests.get(url)
CountFetch ==
    /\ fetch_attempts' = fetch_attempts + 1
    /\ fetch_count' =
         [u \in DOMAIN fetch_count \cup {url} |->
            IF u = url
            THEN (IF url \in DOMAIN fetch_count THEN fetch_count[url] ELSE 0) + 1
            ELSE fetch_count[u]]
    /\ fetched_since_sleep' = TRUE

\* raise_for_status raising for 5xx only
raises_for_status_server_errors_only(r) == r.status_code >= 500 /\ r.status_code < 600

\* resp.raise_for_status() raises for 4xx and 5xx
raises_for_status(r) == r.status_code >= 400 /\ r.status_code < 600

\* the except branch of the fetch without visited.add(url)
FetchFailed_not_marked ==
    /\ c_pc = "fetch"
    /\ \E r \in Responses(url) :
          /\ r.exception \/ raises_for_status(r)
          /\ CountFetch
          /\ outcomes' = outcomes \cup {"fetch_failure"}
          /\ c_pc' = "loop"
    /\ UNCHANGED <<mainVars, base_url, visited, to_visit, domain_data, pages_scraped,
                   total_scraped_count, url, resp, soup, parsers_tried, emitted>>
    /\ NotCrawl

\* scrape_site: requests.get or raise_for_status raises
FetchFailed ==
    /\ c_pc = "fetch"
    /\ \E r \in Responses(url) :
          /\ r.exception \/ raises_for_status(r)
          /\ CountFetch
          /\ visited' = visited \cup {url}
          /\ outcomes' = outcomes \cup {"fetch_failure"}
          /\ c_pc' = "loop"
    /\ UNCHANGED <<mainVars, base_url, to_visit, domain_data, pages_scraped,
                   total_scraped_count, url, resp, soup, parsers_tried, emitted>>
    /\ NotCrawl

\* scrape_site: requests.get returns and raise_for_status does not raise
FetchReturned ==
    /\ c_pc = "fetch"
    /\ \E r \in Responses(url) :
          /\ ~(r.exception \/ raises_for_status(r))
          /\ CountFetch
          /\ resp' = r
          /\ c_pc' = "parse"
    /\ UNCHANGED <<mainVars, base_url, visited, to_visit, domain_data, pages_scraped,
                   total_scraped_count, url, soup, parsers_tried, outcomes,
                   emitted>>
    /\ NotCrawl

\* every parser tried on a body, whether or not an earlier one succeeded
tried_every_parser(parsers, failing) == parsers

\* the parsers tried on a body: up to and including the first that does not
\* raise
RECURSIVE tried(_, _)
tried(parsers, failing) ==
    IF Len(parsers) = 0 THEN <<>>
    ELSE IF Head(parsers) \in failing
    THEN <<Head(parsers)>> \o tried(Tail(parsers), failing)
    ELSE <<Head(parsers)>>

\* scrape_site: the nested try blocks around BeautifulSoup(resp.text, parser)
Parse ==
    /\ c_pc = "parse"
    /\ parsers_tried' = tried(PARSERS, resp.failing)
    /\ IF \A i \in 1..Len(PARSERS) : PARSERS[i] \in resp.failing
       THEN /\ visited' = visited \cup {url}
            /\ outcomes' = outcomes \cup {"parser_failure"}
            /\ c_pc' = "loop"
            /\ UNCHANGED soup
       ELSE /\ soup' = resp.doc
            /\ c_pc' = "extract"
            /\ UNCHANGED <<visited, outcomes>>
    /\ UNCHANGED <<mainVars, base_url, to_visit, domain_data, pages_scraped,
                   total_scraped_count, url, resp, fetch_count, fetch_attempts,
                   fetched_since_sleep, emitted>>
    /\ NotCrawl

\* the content test with >= for >
Extract_at_least_threshold ==
    /\ c_pc = "extract"
    /\ LET text == extract_text(soup) IN
       IF text # <<>> /\ Len(strip(text)) >= MIN_CONTENT_LENGTH
       THEN /\ domain_data' = Append(domain_data, [url |-> url, text |-> text])
            /\ pages_scraped' = pages_scraped + 1
            /\ total_scraped_count' = total_scraped_count + 1
            /\ emitted' = [emitted EXCEPT ![domain_idx] = @ + 1]
            /\ outcomes' = outcomes \cup {"success"}
       ELSE /\ outcomes' = outcomes \cup {"too_short"}
            /\ UNCHANGED <<domain_data, pages_scraped, total_scraped_count, emitted>>
    /\ visited' = visited \cup {url}
    /\ c_pc' = "links"
    /\ UNCHANGED <<mainVars, base_url, to_visit, url, resp, soup, parsers_tried,
                   fetch_count, fetch_attempts, fetched_since_sleep>>
    /\ NotCrawl

\* scrape_site: extract_text, the content test, and visited.add(url)
Extract ==
    /\ c_pc = "extract"
    /\ LET text == extract_text(soup) IN
       IF text # <<>> /\ Len(strip(text)) > MIN_CONTENT_LENGTH
       THEN /\ domain_data' = Append(domain_data, [url |-> url, text |-> text])
            /\ pages_scraped' = pages_scraped + 1
            /\ total_scraped_count' = total_scraped_count + 1
            /\ emitted' = [emitted EXCEPT ![domain_idx] = @ + 1]
            /\ outcomes' = outcomes \cup {"success"}
       ELSE /\ outcomes' = outcomes \cup {"too_short"}
            /\ UNCHANGED <<domain_data, pages_scraped, total_scraped_count, emitted>>
    /\ visited' = visited \cup {url}
    /\ c_pc' = "links"
    /\ UNCHANGED <<mainVars, base_url, to_visit, url, resp, soup, parsers_tried,
                   fetch_count, fetch_attempts, fetched_since_sleep>>
    /\ NotCrawl

\* scrape_site: get_links raises; nothing in scrape_site or main catches it
LinksRaise ==
    /\ c_pc = "links"
    /\ get_links_raises(soup, base_url)
    /\ c_pc' = "raised"
    /\ UNCHANGED <<mainVars, scrapeVars>>
    /\ NotCrawl

\* the link loop without the test "links_added < 10"
LinksAdd_without_cap ==
    /\ c_pc = "links"
    /\ ~get_links_raises(soup, base_url)
    /\ to_visit' = to_visit \cup {l \in get_links(soup, base_url) : l \notin visited}
    /\ c_pc' = "sleep"
    /\ UNCHANGED <<mainVars, base_url, visited, domain_data, pages_scraped,
                   total_scraped_count, url, resp, soup, parsers_tried, fetch_count,
                   fetch_attempts, outcomes, fetched_since_sleep, emitted>>
    /\ NotCrawl

\* the link loop without the test "link not in visited"
LinksAdd_not_testing_visited ==
    /\ c_pc = "links"
    /\ ~get_links_raises(soup, base_url)
    /\ LET new == {l \in get_links(soup, base_url) : l \notin to_visit}
           n == IF Cardinality(new) < MAX_LINKS_PER_PAGE
                THEN Cardinality(new) ELSE MAX_LINKS_PER_PAGE
       IN \E added \in SUBSET new :
             /\ Cardinality(added) = n
             /\ to_visit' = to_visit \cup added
    /\ c_pc' = "sleep"
    /\ UNCHANGED <<mainVars, base_url, visited, domain_data, pages_scraped,
                   total_scraped_count, url, resp, soup, parsers_tried, fetch_count,
                   fetch_attempts, outcomes, fetched_since_sleep, emitted>>
    /\ NotCrawl

\* scrape_site: get_links returns; the for loop adds the first
\* MAX_LINKS_PER_PAGE new links in the set's iteration order, which is any
LinksAdd ==
    /\ c_pc = "links"
    /\ ~get_links_raises(soup, base_url)
    /\ LET new == {l \in get_links(soup, base_url) : l \notin visited /\ l \notin to_visit}
           n == IF Cardinality(new) < MAX_LINKS_PER_PAGE
                THEN Cardinality(new) ELSE MAX_LINKS_PER_PAGE
       IN \E added \in SUBSET new :
             /\ Cardinality(added) = n
             /\ to_visit' = to_visit \cup added
    /\ c_pc' = "sleep"
    /\ UNCHANGED <<mainVars, base_url, visited, domain_data, pages_scraped,
                   total_scraped_count, url, resp, soup, parsers_tried, fetch_count,
                   fetch_attempts, outcomes, fetched_since_sleep, emitted>>
    /\ NotCrawl

\* scrape_site: time.sleep(CRAWL_DELAY)
Sleep ==
    /\ c_pc = "sleep"
    /\ fetched_since_sleep' = FALSE
    /\ c_pc' = "loop"
    /\ UNCHANGED <<mainVars, base_url, visited, to_visit, domain_data, pages_scraped,
                   total_scraped_count, url, resp, soup, parsers_tried, fetch_count,
                   fetch_attempts, outcomes, emitted>>
    /\ NotCrawl

\* ingest.py reads the file the crawl wrote: documents = load_jsonl(...)
LoadOutputGiving(loaded) ==
    /\ IF loaded.raised
       THEN c_pc' = "load_raised" /\ UNCHANGED documents
       ELSE c_pc' = "loaded" /\ documents' = loaded.docs
    /\ UNCHANGED <<mainVars, scrapeVars>>
    /\ UNCHANGED <<skipVars, extractVars, ig_pc, data_file, out_dir, out_dir_before,
                   ig_error>>

LoadOutput ==
    /\ c_pc = "done"
    /\ LoadOutputGiving(load_jsonl_text(output_file))

(***************************************************************************)
(* Properties of the crawl                                                 *)
(***************************************************************************)
AllOutcomes == {"fetch_failure", "parser_failure", "too_short", "success"}

\* C1: within one scrape_site call no URL is fetched more than once, and at
\* every loop-iteration boundary the visited set has as many members as
\* fetch attempts were made, for every pop order and every outcome.
C1_FetchedOnce ==
    /\ \A u \in DOMAIN fetch_count : fetch_count[u] <= 1
    /\ c_pc = "loop" => Cardinality(visited) = fetch_attempts

\* C1 witness: at a loop boundary after four attempts that ended in the four
\* ways an attempt can end.
C1_Witness ==
    /\ c_pc = "loop"
    /\ fetch_attempts = 4
    /\ Cardinality(visited) = 4
    /\ outcomes = AllOutcomes

\* C2: at most 100 records are emitted for one origin and at most 200 over
\* all origins, at every point of the run.
C2_PageBudgets ==
    /\ \A d \in 1..Len(DOMAINS) : emitted[d] <= 100
    /\ emitted[1] + emitted[2] <= 200
    /\ Len(domain_data) <= 100
    /\ Len(fout) <= 200

\* C2 witness: the run is over with 100 records of each origin written, and
\* with links of the last origin left in the frontier.
C2_Witness ==
    /\ c_pc = "done"
    /\ emitted[1] = 100
    /\ emitted[2] = 100
    /\ Len(fout) = 200
    /\ to_visit # {}

\* C3: when a fetch is about to be issued, a sleep has occurred since the
\* fetch before it, however that one ended.
C3_SleepBetweenFetches == c_pc = "fetch" => ~fetched_since_sleep

\* C4: no error raised while a page is processed leaves scrape_site; the run
\* goes on to the next frontier entry and ends by the frontier or a budget.
C4_ErrorsAbsorbed == c_pc # "raised"

\* a step that issues requests.get(url) and handles what it gives
FetchStep == c_pc = "fetch" /\ fetch_attempts' = fetch_attempts + 1

\* the effects of a fetch failure: the URL is marked visited, no record is
\* emitted, no link joins the frontier, and the loop goes on
FailureEffects ==
    /\ c_pc' = "loop"
    /\ url \in visited'
    /\ domain_data' = domain_data
    /\ pages_scraped' = pages_scraped
    /\ total_scraped_count' = total_scraped_count
    /\ emitted' = emitted
    /\ to_visit' = to_visit

PopStep == c_pc = "loop" /\ url' \in to_visit /\ to_visit' = to_visit \ {url'}

\* C13: at every loop-iteration boundary the frontier and the visited set
\* are disjoint; within one scrape_site call a visited URL never joins the
\* frontier again, and the entry popped is never one already visited, so
\* the discard branch after the pop is never taken.
C13_NeverReenqueued ==
    /\ [](c_pc = "loop" => to_visit \cap visited = {})
    /\ [][(c_pc # "main" =>
              \A u \in visited : (u \in to_visit' => u \in to_visit))
          /\ (PopStep => url' \notin visited)]_vars

\* C13 witness: at a loop boundary after a page that links back to a
\* visited URL, with entries left in the frontier.
C13_Witness ==
    /\ c_pc = "loop"
    /\ url \in visited
    /\ to_visit # {}
    /\ soup # <<>>
    /\ get_links(soup, base_url) \cap (visited \ {url}) # {}

\* the URLs a step adds to the frontier
Enqueued == to_visit' \ to_visit

\* C14: a loop iteration adds at most 10 URLs to the frontier, none of which
\* was in the visited set or in the frontier before; the links are added in
\* the one step after get_links, and an iteration whose fetch or parsing
\* failed adds none.
C14_FanOutCap ==
    [][c_pc # "main" =>
         /\ Cardinality(Enqueued) <= 10
         /\ Enqueued \cap visited = {}
         /\ c_pc # "links" => Enqueued = {}
         /\ (c_pc \in {"fetch", "parse"} /\ c_pc' = "loop") => to_visit' = to_visit]_vars

\* C14 witness: a page with 11 links that are all new has been processed
\* and exactly 10 of them are in the frontier.
C14_Witness ==
    /\ c_pc = "sleep"
    /\ Cardinality(get_links(soup, base_url) \ visited) = 11
    /\ Cardinality(to_visit) = 10
    /\ to_visit \subseteq get_links(soup, base_url)

\* what a URL has to be for link discovery to enqueue it: the origin's
\* network location or none, and nothing that classifies it skip
AdmissibleParsed(p, base_netloc) ==
    /\ p.netloc \in {<<>>, base_netloc}
    /\ \A ext \in SKIP_EXTENSIONS : ~endswith(lower(p.path), ext)
    /\ \A param \in skip_params : ~contains(lower(p.query), param)
    /\ Len(SelectSeq(split(p.path, "/"), LAMBDA seg : seg # <<>>)) <= 4
    /\ p.fragment = <<>>

Admissible(u) == AdmissibleParsed(urlparse(u), urlparse(base_url).netloc)

\* C15: every URL that link discovery adds to the frontier has the origin's
\* network location or an empty one, and is classified skip = false; every
\* URL fetched is the seed or such a URL, so none with another network
\* location is fetched.
C15_OnlyInternalLinks ==
    [][/\ c_pc # "main" => \A u \in Enqueued : Admissible(u)
       /\ FetchStep => (url = base_url \/ Admissible(url))]_vars

\* C15 witness: the seed page, which links to another host, to a PDF, to a
\* deep path, to a paged query and to a mailto address, has been processed,
\* and the frontier holds its two same-host links and the mailto address
\* (empty network location) only.
C15_Witness ==
    /\ c_pc = "sleep"
    /\ url = base_url
    /\ \E el \in Range(anchors(soup)) :
          urlparse(urljoin(base_url, el.href[1])).netloc
              \notin {<<>>, urlparse(base_url).netloc}
    /\ \E el \in Range(anchors(soup)) : should_skip_url(urljoin(base_url, el.href[1]))
    /\ Cardinality(to_visit) = 3
    /\ \E u \in to_visit : urlparse(u).netloc = <<>>

\* the step that follows the parsers: extract_text and the content test
ExtractStep == c_pc = "extract" /\ c_pc' # "extract"

\* the extracted text of the page in hand is longer than 50 once trimmed
TrimmedTextOver50 == Len(strip(extract_text(soup))) > 50

\* C16: a record is emitted for a fetched and parsed page iff its extracted
\* text, trimmed, is longer than 50 characters, and then exactly one record
\* is emitted and each counter grows by 1; otherwise no record is emitted
\* and both counters stay; either way the URL is marked visited and the
\* iteration goes on to link discovery, which enqueues new links of the
\* page.
C16_ContentThreshold ==
    [][/\ ExtractStep =>
            /\ url \in visited'
            /\ c_pc' = "links"
            /\ IF TrimmedTextOver50
               THEN /\ domain_data' =
                         Append(domain_data, [url |-> url, text |-> extract_text(soup)])
                    /\ pages_scraped' = pages_scraped + 1
                    /\ total_scraped_count' = total_scraped_count + 1
               ELSE /\ domain_data' = domain_data
                    /\ pages_scraped' = pages_scraped
                    /\ total_scraped_count' = total_scraped_count
       /\ (c_pc = "links" /\ c_pc' = "sleep") =>
            (get_links(soup, base_url) \ (visited \cup to_visit) # {}
                => Enqueued # {})]_vars

\* C16 witness: a page whose text is too short has been processed: it is in
\* the visited set, no record holds it, both counters are where they were
\* after the seed, and a link only this page has is in the frontier.
C16_Witness ==
    /\ c_pc = "sleep"
    /\ url = DOMAINS[1] \o <<"a">>
    /\ ~TrimmedTextOver50
    /\ url \in visited
    /\ \A i \in 1..Len(domain_data) : domain_data[i].url # url
    /\ pages_scraped = 1
    /\ total_scraped_count = 1
    /\ DOMAINS[1] \o <<"c">> \in to_visit

\* C17: once the global page counter has reached 200 no fetch is issued in
\* the rest of the run: the loop of the origin being crawled is left, even
\* with entries in the frontier, and main starts no further origin.
C17_GlobalBudgetStops ==
    [][total_scraped_count >= 200 =>
         /\ ~FetchStep
         /\ c_pc' # "fetch"
         /\ c_pc = "loop" => c_pc' = "return"
         /\ c_pc = "main" => c_pc' = "done"]_vars

\* C17 witness: scrape_site has left its loop with the global counter at
\* 200 and an entry still in the frontier.
C17_Witness ==
    /\ c_pc = "return"
    /\ total_scraped_count = 200
    /\ domain_idx = 2
    /\ to_visit # {}
    /\ fetch_attempts = 100

\* C18: in the state where the loop of an origin has ended the frontier is
\* empty, or the origin's count is 100, or the global count is 200.
C18_EndsByFrontierOrBudget ==
    c_pc \in {"return", "raised"} =>
        \/ to_visit = {}
        \/ pages_scraped = 100
        \/ total_scraped_count = 200

\* the step that runs the parsers on the response in hand
ParseStep == c_pc = "parse" /\ c_pc' # "parse"

\* C19: the parsers are tried in the order html.parser, lxml, html5lib, a
\* later one only when every earlier one raised; the tree of the first that
\* succeeds is used; when all three raise the URL is marked visited, no
\* record is emitted, no link is enqueued and the loop goes on.
C19_ParserFallback ==
    [][ParseStep =>
         LET order == <<"html.parser", "lxml", "html5lib">>
             n == Len(parsers_tried')
         IN /\ n \in 1..3
            /\ parsers_tried' = SubSeq(order, 1, n)
            /\ \A i \in 1..(n - 1) : order[i] \in resp.failing
            /\ IF order[n] \notin resp.failing
               THEN c_pc' = "extract" /\ soup' = resp.doc /\ visited' = visited
               ELSE n = 3 /\ FailureEffects]_vars

\* C19 witness: all three parsers have raised on a page: it is in the
\* visited set and the loop is about to go on with the entries left.
C19_Witness ==
    /\ c_pc = "loop"
    /\ parsers_tried = <<"html.parser", "lxml", "html5lib">>
    /\ resp.failing = {"html.parser", "lxml", "html5lib"}
    /\ "parser_failure" \in outcomes
    /\ url \in visited
    /\ \A i \in 1..Len(domain_data) : domain_data[i].url # url
    /\ to_visit # {}

\* the document load_jsonl is to make of one record the crawl wrote
DocumentOf(page) ==
    [page_content |-> strip(page.text), metadata |-> [source |-> page.url]]

\* C20: when a crawl run has completed, the record store holds one line for
\* each emitted record, as many as the final global counter, and the URLs
\* of the records are pairwise distinct; load_jsonl over the file does not
\* raise and returns one Document for each record, in file order, whose
\* source is the record's url and whose page_content is the record's text
\* trimmed, so that no record is dropped.
C20_OutputRoundTrips ==
    /\ c_pc # "load_raised"
    /\ c_pc = "loaded" =>
          /\ Len(fout) = total_scraped
          /\ Len(file_lines(output_file)) = total_scraped
          /\ \A i, j \in 1..Len(fout) : fout[i].url = fout[j].url => i = j
          /\ Len(documents) = Len(fout)
          /\ \A i \in 1..Len(fout) : documents[i] = DocumentOf(fout[i])

\* has(text, c): the character c occurs in text
has(text, c) == \E i \in 1..Len(text) : text[i] = c

\* a completed run of the small site was loaded: records of both origins,
\* one with a newline in its text, one with a quote, a backslash and a tab
C20_Witness ==
    /\ c_pc = "loaded"
    /\ site = "small"
    /\ Len(documents) >= 3
    /\ \E i \in 1..Len(fout) : has(fout[i].text, "\n")
    /\ \E i \in 1..Len(fout) :
          has(fout[i].text, "\"") /\ has(fout[i].text, "\\") /\ has(fout[i].text, "\t")
    /\ \E i, j \in 1..Len(fout) :
          startswith(fout[i].url, DOMAINS[1]) /\ startswith(fout[j].url, DOMAINS[2])

(***************************************************************************)
(* Specifications                                                          *)
(***************************************************************************)
InitSkip == SkipInit /\ ExtractIdle /\ IngestIdle /\ CrawlIdle

SpecSkip == InitSkip /\ [][CallShouldSkip]_vars

InitExtract == ExtractInit /\ SkipIdle /\ IngestIdle /\ CrawlIdle

SpecExtract == InitExtract /\ [][CallExtractText]_vars

IngestNext ==
    \/ MainMkdir
    \/ MainLoad
    \/ MainCheck
    \/ BuildSplit
    \/ BuildEmbed
    \/ BuildFaiss
    \/ BuildSave

InitIngest == IngestInit /\ SkipIdle /\ ExtractIdle /\ CrawlIdle

SpecIngest == InitIngest /\ [][IngestNext]_vars

Init == CrawlInit /\ SkipIdle /\ ExtractIdle /\ IngestIdle

Next ==
    \/ MainFor
    \/ LoopExit
    \/ Return
    \/ LoopPop
    \/ FetchFailed
    \/ FetchReturned
    \/ Parse
    \/ Extract
    \/ LinksRaise
    \/ LinksAdd
    \/ Sleep
    \/ LoadOutput

Spec == Init /\ [][Next]_vars

====
